---- MODULE Spec2Model ----
(***************************************************************************)
(* Patio-route assignment optimizer (src/modelo_optimizacion.py):          *)
(* the feasibility pre-check, the PLE model builder, the solver gateway,   *)
(* the infeasibility diagnoser, the relaxation search, the extraction of   *)
(* results and the pipeline main() that drives them.                       *)
(***************************************************************************)
EXTENDS Integers, Sequences, FiniteSets, TLC

(***************************************************************************)
(* Universe of the inputs.                                                 *)
(***************************************************************************)
\* patio ids that may be keys of the cost tables
Patios == {"X", "Y"}
\* a patio id that may appear in the capacity table only
PatioExtra == "Z"
\* route ids
Rutas == {"A", "B", "C"}
\* capacities in capacidades_patios.json range over 0..MaxCap
MaxCap == 2

\* Config.CAPACIDAD_PATIO_DEFAULT
CAPACIDAD_PATIO_DEFAULT == 15
\* rutas_sin_patio[:5], the examples the pre-check prints
EJEMPLOS_MAX == 5

\* cost of each pair when matriz_distancias_hibrida.json holds it (km)
DistBase ==
  [i \in Patios |->
     IF i = "X" THEN [j \in Rutas |-> IF j = "A" THEN 5 ELSE IF j = "B" THEN 9 ELSE 7]
                ELSE [j \in Rutas |-> IF j = "A" THEN 6 ELSE IF j = "B" THEN 4 ELSE 3]]

\* cost of each pair when matriz_tiempos_hibrida.json holds it (minutes)
TiempoBase ==
  [i \in Patios |->
     IF i = "X" THEN [j \in Rutas |-> IF j = "A" THEN 20 ELSE IF j = "B" THEN 30 ELSE 25]
                ELSE [j \in Rutas |-> IF j = "A" THEN 22 ELSE IF j = "B" THEN 15 ELSE 12]]

\* a sparse table {patio: {ruta: costo}} with the given rows
Tabla(base, forma) ==
  [i \in DOMAIN forma |-> [j \in forma[i] |-> base[i][j]]]

\* every shape {patio: set of rutas} a cost table can have
Formas ==
  UNION {[K -> SUBSET Rutas] : K \in SUBSET Patios}

\* the capacity PatioExtra has when capacidades_patios.json lists it
ConExtra(t) ==
  [p \in DOMAIN t \cup {PatioExtra} |-> IF p = PatioExtra THEN 1 ELSE t[p]]

\* every capacity table: each patio of the universe absent or with a
\* capacity, and optionally a patio that the cost table does not know
TablasCapacidad ==
  LET T == UNION {[K -> 0..MaxCap] : K \in SUBSET Patios}
  IN T \cup {ConExtra(t) : t \in T}

(***************************************************************************)
(* Helpers.                                                                *)
(***************************************************************************)
RECURSIVE SumaValores(_)
\* sum(d.values()) of a dict d
SumaValores(d) ==
  IF DOMAIN d = {} THEN 0
  ELSE LET k == CHOOSE k \in DOMAIN d : TRUE
       IN d[k] + SumaValores([q \in DOMAIN d \ {k} |-> d[q]])

RECURSIVE SumaCoef(_)
\* sum of the coefficients of a set of terms <<i, j, coef>>
SumaCoef(T) ==
  IF T = {} THEN 0
  ELSE LET t == CHOOSE t \in T : TRUE
       IN t[3] + SumaCoef(T \ {t})

\* dict.get(k, default)
Get(d, k, default) == IF k \in DOMAIN d THEN d[k] ELSE default

\* the routes taken from a list of all known routes instead of the rows
TodasRutasConocidas(md) == Rutas

\* the union of the keys of all rows of a cost table
TodasRutas(md) == UNION {DOMAIN md[p] : p \in DOMAIN md}

\* a report line printed to the console
Linea(tipo, ids, a, b) == [tipo |-> tipo, ids |-> ids, a |-> a, b |-> b]

\* lst[:n] of a list without duplicates, kept as a set
Primeros(S, n) ==
  IF Cardinality(S) <= n THEN S
  ELSE CHOOSE T \in SUBSET S : Cardinality(T) = n

(***************************************************************************)
(* DiagnosticoInfactibilidad                                               *)
(***************************************************************************)
\* the routes with no patio whose row holds them
RutasSinPatio(md, rutas) ==
  {r \in rutas : {p \in DOMAIN md : r \in DOMAIN md[p]} = {}}

\* the warnings of step 3 of the pre-check: capacity above the possible routes
AvisosCapacidad(md, caps) ==
  {Linea("AvisoCapacidadMayorQueRutas", {p}, caps[p], Cardinality(DOMAIN md[p])) :
     p \in {q \in DOMAIN caps \cap DOMAIN md : Cardinality(DOMAIN md[q]) < caps[q]}}

\* verificar_factibilidad_basica with the capacity test left out
verificar_factibilidad_basica_sin_capacidad(md, caps, rutas) ==
  IF RutasSinPatio(md, rutas) # {}
  THEN [ok |-> FALSE,
        lineas |-> {Linea("RutasSinPatio", Primeros(RutasSinPatio(md, rutas), EJEMPLOS_MAX),
                          Cardinality(RutasSinPatio(md, rutas)), 0)}]
  ELSE [ok |-> TRUE, lineas |-> AvisosCapacidad(md, caps)]

\* verificar_factibilidad_basica: the verdict and the lines it prints
verificar_factibilidad_basica(md, caps, rutas) ==
  LET total_rutas == Cardinality(rutas)
      capacidad_total == SumaValores(caps)
      rutas_sin_patio == RutasSinPatio(md, rutas)
  IN IF total_rutas > capacidad_total
     THEN [ok |-> FALSE,
           lineas |-> {Linea("CapacidadInsuficiente", {}, total_rutas, capacidad_total)}]
     ELSE IF rutas_sin_patio # {}
     THEN [ok |-> FALSE,
           lineas |-> {Linea("RutasSinPatio", Primeros(rutas_sin_patio, EJEMPLOS_MAX),
                             Cardinality(rutas_sin_patio), 0)}]
     ELSE [ok |-> TRUE, lineas |-> AvisosCapacidad(md, caps)]

\* relajar_capacidades: int(capacidad * factor), factor = num / den
relajar_capacidades(caps, num, den) ==
  [p \in DOMAIN caps |-> (caps[p] * num) \div den]

\* ajustar_balance_carga without the lower limit of 1 on min_rutas
ajustar_balance_carga_sin_minimo(total_rutas, total_patios, fmin_n, fmin_d, fmax_n, fmax_d) ==
  <<(total_rutas * fmin_n) \div (total_patios * fmin_d),
    (total_rutas * fmax_n) \div (total_patios * fmax_d)>>

\* ajustar_balance_carga: the factors are fmin_n/fmin_d and fmax_n/fmax_d
ajustar_balance_carga(total_rutas, total_patios, fmin_n, fmin_d, fmax_n, fmax_d) ==
  LET piso_min == (total_rutas * fmin_n) \div (total_patios * fmin_d)
      min_rutas == IF piso_min > 1 THEN piso_min ELSE 1
      max_rutas == (total_rutas * fmax_n) \div (total_patios * fmax_d)
  IN <<min_rutas, max_rutas>>

(***************************************************************************)
(* OptimizadorAsignacion.crear_modelo_ple                                  *)
(***************************************************************************)
\* the number of patios of the largest cost table diagnosed
MaxPatiosDiag == 11

\* the patio ids of the cost tables with many patios, in file order
PatiosDiag ==
  SubSeq(<<"P01", "P02", "P03", "P04", "P05", "P06", "P07", "P08", "P09", "P10", "P11",
           "P12", "P13">>, 1, MaxPatiosDiag)

\* the order of the keys of matriz_distancias_hibrida.json
OrdenPatios == <<"X", "Y">> \o PatiosDiag

\* list(d.keys())
Claves(d) == SelectSeq(OrdenPatios, LAMBDA p : p \in DOMAIN d)

\* the elements of a list
Rango(lst) == {lst[k] : k \in DOMAIN lst}

\* a pulp.LpProblem right after its construction
ProblemaNuevo(nombre) ==
  [creado |-> TRUE, nombre |-> nombre, objetivo |-> {}, restricciones |-> {},
   status |-> "Not Solved", valores |-> {}]

\* the optimizer before any crear_modelo_ple: it has no prob attribute
SinProblema ==
  [creado |-> FALSE, nombre |-> "", objetivo |-> {}, restricciones |-> {},
   status |-> "Not Solved", valores |-> {}]

\* a constraint: the sum of x over pares, compared with rhs
Restriccion(nombre, id, pares, sentido, rhs) ==
  [nombre |-> nombre, id |-> id, pares |-> pares, sentido |-> sentido, rhs |-> rhs]

\* the keys of self.x: the pairs of a listed patio and a listed route that
\* matriz_distancias holds
VariablesX(md, patios, rutas) ==
  {<<i, j>> \in patios \X rutas : j \in DOMAIN md[i]}

\* ObjetivoDistancia with every coefficient 1 instead of the distance
ObjetivoDistanciaSinCostos(md, patios, rutas) ==
  {<<q[1], q[2], 1>> : q \in {r \in patios \X rutas : r[2] \in DOMAIN md[r[1]]}}

\* the objective for 'distancia': its terms <<i, j, coefficient>>
ObjetivoDistancia(md, patios, rutas) ==
  {<<i, j, md[i][j]>> : <<i, j>> \in {q \in patios \X rutas : q[2] \in DOMAIN md[q[1]]}}

\* the pairs the generator of the objective for 'tiempo' visits when nothing
\* fails: it filters on matriz_tiempos
ParesTiempo(mt, patios, rutas) ==
  {<<i, j>> \in (patios \cap DOMAIN mt) \X rutas : j \in DOMAIN mt[i]}

\* the objective for 'tiempo' raises KeyError: matriz_tiempos lacks a listed
\* patio, or it holds a pair for which self.x has no variable
ObjetivoTiempoFalla(mt, patios, rutas, xs) ==
  /\ rutas # {}
  /\ \/ patios \ DOMAIN mt # {}
     \/ ParesTiempo(mt, patios, rutas) \ xs # {}

\* the objective for 'tiempo' when it does not raise
ObjetivoTiempo(mt, patios, rutas) ==
  {<<q[1], q[2], mt[q[1]][q[2]]>> : q \in ParesTiempo(mt, patios, rutas)}

\* RestriccionesRuta with each route assigned to at most one patio
RestriccionesRutaALoMas(md, patios, rutas) ==
  {Restriccion("Ruta_Asignada", j, {<<i, j>> : i \in {p \in patios : j \in DOMAIN md[p]}}, "<=", 1) :
     j \in {r \in rutas : {p \in patios : r \in DOMAIN md[p]} # {}}}

\* constraint 1: each route with a valid patio is assigned to exactly one
RestriccionesRuta(md, patios, rutas) ==
  {Restriccion("Ruta_Asignada", j, {<<i, j>> : i \in {p \in patios : j \in DOMAIN md[p]}}, "=", 1) :
     j \in {r \in rutas : {p \in patios : r \in DOMAIN md[p]} # {}}}

\* constraint 2: the capacity of each patio with a valid route
RestriccionesCapacidad(md, patios, rutas, capacidades_ajustadas) ==
  {Restriccion("Capacidad_Patio", i, {<<i, j>> : j \in {r \in rutas : r \in DOMAIN md[i]}},
               "<=", Get(capacidades_ajustadas, i, CAPACIDAD_PATIO_DEFAULT)) :
     i \in {p \in patios : {r \in rutas : r \in DOMAIN md[p]} # {}}}

\* constraint 3: the load balance of each patio with at least min_rutas
\* valid routes
RestriccionesBalance(md, patios, rutas, relajar_restricciones) ==
  IF Cardinality(patios) = 0 THEN {}
  ELSE
    LET lim == IF relajar_restricciones
               THEN ajustar_balance_carga(Cardinality(rutas), Cardinality(patios), 3, 10, 3, 1)
               ELSE ajustar_balance_carga(Cardinality(rutas), Cardinality(patios), 3, 4, 5, 4)
        validas(i) == {r \in rutas : r \in DOMAIN md[i]}
        con_balance == {p \in patios : validas(p) # {} /\ Cardinality(validas(p)) >= lim[1]}
    IN {Restriccion("Min_Rutas_Patio", i, {<<i, j>> : j \in validas(i)}, ">=", lim[1]) :
          i \in con_balance}
         \cup
       {Restriccion("Max_Rutas_Patio", i, {<<i, j>> : j \in validas(i)}, "<=", lim[2]) :
          i \in con_balance}

\* the name of the problem for an objective selector
NombreProblema(objetivo) ==
  IF objetivo = "distancia" THEN "Asignacion_Optima_Patios_Rutas_Distancia"
  ELSE "Asignacion_Optima_Patios_Rutas_Tiempo"

\* the body of crear_modelo_ple: the attributes it sets (patios_ids, x,
\* prob) and whether it raised instead of returning True
ConstruirPLE(md, mt, caps, rutas, objetivo, balance_carga, relajar_restricciones) ==
  LET lista == Claves(md)
      patios == Rango(lista)
      capacidades_ajustadas ==
        IF relajar_restricciones THEN relajar_capacidades(caps, 3, 2) ELSE caps
      xs == VariablesX(md, patios, rutas)
      nuevo == ProblemaNuevo(NombreProblema(objetivo))
      falla == objetivo # "distancia" /\ ObjetivoTiempoFalla(mt, patios, rutas, xs)
      obj == IF objetivo = "distancia" THEN ObjetivoDistancia(md, patios, rutas)
             ELSE ObjetivoTiempo(mt, patios, rutas)
      restr == RestriccionesRuta(md, patios, rutas)
                 \cup RestriccionesCapacidad(md, patios, rutas, capacidades_ajustadas)
                 \cup (IF balance_carga
                       THEN RestriccionesBalance(md, patios, rutas, relajar_restricciones)
                       ELSE {})
  IN [patios_ids |-> lista,
      x |-> xs,
      excepcion |-> falla,
      prob |-> IF falla THEN nuevo
               ELSE [nuevo EXCEPT !.objetivo = obj, !.restricciones = restr]]

\* crear_modelo_ple relaxing self.capacidades in place instead of a copy
crear_modelo_ple_sin_copia(md, mt, caps, rutas, objetivo, balance_carga, relajar_restricciones) ==
  LET m == ConstruirPLE(md, mt, caps, rutas, objetivo, balance_carga, relajar_restricciones)
  IN [patios_ids |-> m.patios_ids, x |-> m.x, excepcion |-> m.excepcion, prob |-> m.prob,
      capacidades |-> IF relajar_restricciones THEN relajar_capacidades(caps, 3, 2) ELSE caps]

\* crear_modelo_ple: what it leaves in patios_ids, x and prob, and in
\* self.capacidades, which it copies or replaces by a new table and never
\* changes
\* crear_modelo_ple storing the default capacity in self.capacidades for the
\* patios that the table lacks (setdefault in place of get)
crear_modelo_ple_con_default(md, mt, caps, rutas, objetivo, balance_carga, relajar_restricciones) ==
  LET m == ConstruirPLE(md, mt, caps, rutas, objetivo, balance_carga, relajar_restricciones)
  IN [patios_ids |-> m.patios_ids, x |-> m.x, excepcion |-> m.excepcion, prob |-> m.prob,
      capacidades |-> [q \in DOMAIN caps \cup Rango(m.patios_ids) |->
                         Get(caps, q, CAPACIDAD_PATIO_DEFAULT)]]

crear_modelo_ple(md, mt, caps, rutas, objetivo, balance_carga, relajar_restricciones) ==
  LET m == ConstruirPLE(md, mt, caps, rutas, objetivo, balance_carga, relajar_restricciones)
  IN [patios_ids |-> m.patios_ids, x |-> m.x, excepcion |-> m.excepcion, prob |-> m.prob,
      capacidades |-> caps]

(***************************************************************************)
(* The solver behind self.prob.solve (PULP_CBC_CMD)                        *)
(***************************************************************************)
\* gapRel of resolver_modelo, in percent
GAP_PORCENTAJE == 2

\* the number of variables of pares that are 1 in S satisfies the constraint
Cumple(S, r) ==
  LET n == Cardinality(S \cap r.pares)
  IN CASE r.sentido = "=" -> n = r.rhs
       [] r.sentido = "<=" -> n <= r.rhs
       [] OTHER -> n >= r.rhs

\* the 0/1 points of the model, each as the set of variables that are 1
Factibles(p, xs) ==
  {S \in SUBSET xs : \A r \in p.restricciones : Cumple(S, r)}

\* the value of the objective at a point
Costo(p, S) == SumaCoef({t \in p.objetivo : <<t[1], t[2]>> \in S})

\* the points the solver may return as optimal: within the gap of the best
Aceptables(p, xs) ==
  LET F == Factibles(p, xs)
  IN {S \in F : \A T \in F : Costo(p, S) * 100 <= Costo(p, T) * (100 + GAP_PORCENTAJE)}

\* the statuses that resolver_modelo treats in its last branch
EstadosNoOptimos == {"Not Solved"}

\* what a call of solve can leave in prob.status and in the variables
ResultadosSolver(p, xs) ==
  {[status |-> "Optimal", valores |-> S] : S \in Aceptables(p, xs)}
    \cup (IF Factibles(p, xs) = {}
          THEN {[status |-> "Infeasible", valores |-> {}]} ELSE {})
    \cup {[status |-> e, valores |-> {}] : e \in EstadosNoOptimos}

(***************************************************************************)
(* _diagnosticar_infactibilidad and extraer_resultados                     *)
(***************************************************************************)
\* self.patios_ids[:10], the patios the diagnosis analyses
DIAG_MAX_PATIOS == 10
\* rutas_sin_patio[:3], the isolated routes the diagnosis prints
DIAG_MAX_EJEMPLOS == 3

\* lst[:n - 1]
PrefijoCorto(lst, n) == SubSeq(lst, 1, IF Len(lst) < n - 1 THEN Len(lst) ELSE n - 1)

\* lst[:n]
Prefijo(lst, n) == SubSeq(lst, 1, IF Len(lst) < n THEN Len(lst) ELSE n)

\* _diagnosticar_infactibilidad: the lines it prints (it returns nothing and
\* assigns no attribute)
diagnosticar_infactibilidad(md, caps, rutas, patios_lista) ==
  LET total_rutas == Cardinality(rutas)
      capacidad_total == SumaValores(caps)
      rutas_sin_patio ==
        {r \in rutas : {p \in Rango(patios_lista) : r \in DOMAIN md[p]} = {}}
      analizados == Rango(Prefijo(patios_lista, DIAG_MAX_PATIOS))
  IN {Linea("CapacidadVsRutas", {}, total_rutas, capacidad_total)}
       \cup (IF total_rutas > capacidad_total
             THEN {Linea("CapacidadInsuficiente", {}, total_rutas - capacidad_total, 0)}
             ELSE {})
       \cup (IF rutas_sin_patio # {}
             THEN {Linea("RutasAisladas", Primeros(rutas_sin_patio, DIAG_MAX_EJEMPLOS),
                         Cardinality(rutas_sin_patio), 0)}
             ELSE {})
       \cup {Linea("PatioCapacidadMayorQueRutas", {p},
                   Get(caps, p, CAPACIDAD_PATIO_DEFAULT), Cardinality(DOMAIN md[p])) :
               p \in {q \in analizados :
                        Cardinality(DOMAIN md[q]) < Get(caps, q, CAPACIDAD_PATIO_DEFAULT)}}

\* the pairs whose variable is 1, in the loops of extraer_resultados
ParesAsignados(p, xs, patios_lista, rutas) ==
  {q \in Rango(patios_lista) \X rutas : q \in xs /\ q \in p.valores}

\* a row of the results
Fila(md, mt, q) ==
  [patio_id |-> q[1], ruta_id |-> q[2],
   distancia_km |-> md[q[1]][q[2]], tiempo_minutos |-> mt[q[1]][q[2]]]

\* extraer_resultados: None unless the status is Optimal; it raises KeyError
\* when matriz_tiempos lacks an assigned pair; the rows become
\* self.resultados, and are returned when there is at least one
extraer_resultados(p, xs, patios_lista, rutas, md, mt) ==
  IF p.status # "Optimal"
  THEN [ejecuta |-> FALSE, excepcion |-> FALSE, filas |-> {}, retorna |-> FALSE]
  ELSE LET pares == ParesAsignados(p, xs, patios_lista, rutas)
           falta == {q \in pares : q[1] \notin DOMAIN mt \/ q[2] \notin DOMAIN mt[q[1]]}
       IN IF falta # {}
          THEN [ejecuta |-> TRUE, excepcion |-> TRUE, filas |-> {}, retorna |-> FALSE]
          ELSE [ejecuta |-> TRUE, excepcion |-> FALSE,
                filas |-> {Fila(md, mt, q) : q \in pares},
                retorna |-> pares # {}]

RECURSIVE Contar(_, _)
\* groupby(campo)['ruta_id'].count(): one group per value of the column,
\* with the number of its rows, accumulated row by row
Contar(filas, campo) ==
  IF filas = {} THEN <<>>
  ELSE LET f == CHOOSE f \in filas : TRUE
           resto == Contar(filas \ {f}, campo)
       IN [g \in DOMAIN resto \cup {f[campo]} |->
             (IF g \in DOMAIN resto THEN resto[g] ELSE 0) + (IF g = f[campo] THEN 1 ELSE 0)]

RECURSIVE Sumar(_, _)
\* the sum of a column of the rows
Sumar(filas, campo) ==
  IF filas = {} THEN 0
  ELSE LET f == CHOOSE f \in filas : TRUE
       IN f[campo] + Sumar(filas \ {f}, campo)

\* the metrics grouped by a column: per group the count of routes and the
\* sums of distance and time, and the totals (the means and deviations are
\* computed from the same rows and are not kept here)
MetricasPor(filas, campo) ==
  [metricas_patios |->
     [g \in DOMAIN Contar(filas, campo) |->
        [rutas |-> Contar(filas, campo)[g],
         distancia_km |-> Sumar({f \in filas : f[campo] = g}, "distancia_km"),
         tiempo_minutos |-> Sumar({f \in filas : f[campo] = g}, "tiempo_minutos")]],
   distancia_total |-> Sumar(filas, "distancia_km"),
   tiempo_total |-> Sumar(filas, "tiempo_minutos")]

\* _calcular_metricas grouping by ruta_id
calcular_metricas_por_ruta(filas) == MetricasPor(filas, "ruta_id")

\* _calcular_metricas: self.resultados grouped by patio_id
calcular_metricas(filas) == MetricasPor(filas, "patio_id")

\* the optimizer before any _calcular_metricas: it has no metrics
SinMetricas == [metricas_patios |-> <<>>, distancia_total |-> 0, tiempo_total |-> 0]

(***************************************************************************)
(* resolver_con_relajacion: its strategies and its control flow            *)
(***************************************************************************)
\* estrategias of resolver_con_relajacion
Estrategias ==
  << [balance_carga |-> TRUE,  relajar_restricciones |-> FALSE, nombre |-> "Estricto"],
     [balance_carga |-> TRUE,  relajar_restricciones |-> TRUE,  nombre |-> "Relajado 1"],
     [balance_carga |-> FALSE, relajar_restricciones |-> TRUE,  nombre |-> "Relajado 2"] >>

\* f"asignaciones_{nombre.lower().replace(' ', '_')}.csv"
NombreArchivo(nombre) ==
  CASE nombre = "Estricto" -> "asignaciones_estricto.csv"
    [] nombre = "Relajado 1" -> "asignaciones_relajado_1.csv"
    [] OTHER -> "asignaciones_relajado_2.csv"

\* the default of the parameter max_intentos of resolver_con_relajacion
MAX_INTENTOS_DEFAULT == 3

\* the largest max_intentos a caller passes
MaxIntentos == 3

\* SiguienteIntento with a step that skips to the last strategy
SiguienteIntentoSalta(n) ==
  IF n < Len(Estrategias)
  THEN [pc |-> "rel_crear", i |-> Len(Estrategias), retorno |-> "ninguno"]
  ELSE [pc |-> "fin", i |-> n, retorno |-> "False"]

\* SiguienteIntento with a loop that gives up one strategy early
SiguienteIntentoCorto(i) ==
  IF i < Len(Estrategias) - 1
  THEN [pc |-> "rel_crear", i |-> i + 1, retorno |-> "ninguno"]
  ELSE [pc |-> "fin", i |-> i, retorno |-> "False"]

\* the end of an iteration of the loop that did not return: the next
\* strategy, or the return of False after the last one
SiguienteIntento(i) ==
  IF i < Len(Estrategias)
  THEN [pc |-> "rel_crear", i |-> i + 1, retorno |-> "ninguno"]
  ELSE [pc |-> "fin", i |-> i, retorno |-> "False"]

\* the diagnoses the optimizer holds after resolver_modelo: the report of
\* _diagnosticar_infactibilidad is printed, the method returns None and
\* assigns no attribute, and resolver_modelo returns False
DiagnosticosRetenidos == <<>>

(***************************************************************************)
(* State                                                                   *)
(***************************************************************************)
VARIABLES
  datos,              \* the JSON documents in Config.DATA_PROCESSED
  cargado,            \* cargar_datos_optimizacion has set the attributes
  matriz_distancias,  \* self.matriz_distancias
  matriz_tiempos,     \* self.matriz_tiempos
  capacidades,        \* self.capacidades
  cap_total,          \* self.cap_total
  rutas_ids,          \* self.rutas_ids
  patios_ids,         \* self.patios_ids
  prob,               \* self.prob, with its status and variable values
  x,                  \* the keys of self.x
  formulacion,        \* the arguments of the latest crear_modelo_ple
  resultados,         \* self.resultados, the rows extracted
  metricas,           \* the metrics that _calcular_metricas keeps
  pc,                 \* the position of main
  i,                  \* the index of the strategy of resolver_con_relajacion
  max_intentos,       \* the argument max_intentos of resolver_con_relajacion
  retorno,            \* what resolver_con_relajacion returned
  archivos,           \* the CSV files written in Config.DATA_RESULTS
  salida,             \* the reports printed to the console
  eventos             \* the builds, solves and extractions so far

vars == <<datos, cargado, matriz_distancias, matriz_tiempos, capacidades, cap_total,
          rutas_ids, patios_ids, prob, x, formulacion, resultados, metricas, pc, i,
          max_intentos, retorno, archivos, salida, eventos>>

entradas == <<datos, cargado, matriz_distancias, matriz_tiempos, capacidades, cap_total,
              rutas_ids>>

\* the inputs other than self.capacidades
fijas == <<datos, cargado, matriz_distancias, matriz_tiempos, cap_total, rutas_ids>>

\* an entry of eventos
Evento(op, origen, intento, form, status) ==
  [op |-> op, origen |-> origen, intento |-> intento, formulacion |-> form,
   status |-> status]

\* an entry of salida
Reporte(origen, intento, lineas) ==
  [origen |-> origen, intento |-> intento, lineas |-> lineas]

\* no crear_modelo_ple yet
SinFormulacion == <<"", FALSE, FALSE>>

\* the shapes matriz_tiempos_hibrida.json can have beside one of
\* matriz_distancias_hibrida.json: the same, or one row shorter by a route
FormasTiempo(f) ==
  {f} \cup {[f EXCEPT ![p] = f[p] \ {CHOOSE r \in f[p] : TRUE}] :
              p \in {q \in DOMAIN f : f[q] # {}}}

\* the documents with cost tables of the given shapes and a capacity table
Documento(f, g, c) ==
  [distancias |-> Tabla(DistBase, f), tiempos |-> Tabla(TiempoBase, g),
   capacidades |-> c, cap_total |-> SumaValores(c)]

\* the documents main can find
Documentos ==
  UNION {{Documento(f, g, c) : g \in FormasTiempo(f), c \in TablasCapacidad} : f \in Formas}

\* the forma of a table
FormaDe(t) == [p \in DOMAIN t |-> DOMAIN t[p]]

\* the optimizer after __init__: no data, no model
InitObjeto ==
  /\ cargado = FALSE
  /\ matriz_distancias = <<>>
  /\ matriz_tiempos = <<>>
  /\ capacidades = <<>>
  /\ cap_total = 0
  /\ rutas_ids = {}
  /\ patios_ids = <<>>
  /\ prob = SinProblema
  /\ x = {}
  /\ formulacion = SinFormulacion
  /\ resultados = {}
  /\ metricas = SinMetricas
  /\ max_intentos = MAX_INTENTOS_DEFAULT
  /\ i = 0
  /\ retorno = "ninguno"
  /\ archivos = {}
  /\ salida = <<>>
  /\ eventos = <<>>

Init ==
  /\ datos \in Documentos
  /\ InitObjeto
  /\ pc = "inicio"

(***************************************************************************)
(* main                                                                    *)
(***************************************************************************)
\* cargar_datos_optimizacion returns True: the attributes are those of the
\* documents and rutas_ids is the union of the keys of the rows
CargarDatos ==
  /\ pc = "inicio"
  /\ datos.cap_total # 0
  /\ cargado' = TRUE
  /\ matriz_distancias' = datos.distancias
  /\ matriz_tiempos' = datos.tiempos
  /\ capacidades' = datos.capacidades
  /\ cap_total' = datos.cap_total
  /\ rutas_ids' = TodasRutas(datos.distancias)
  /\ pc' = "cargado"
  /\ UNCHANGED <<metricas, max_intentos, datos, patios_ids, prob, x, formulacion, resultados, i, retorno,
                 archivos, salida, eventos>>

\* cargar_datos_optimizacion returns False (a document cannot be read, or
\* cap_total is 0 and the statistics divide by it): main returns
CargarDatosFalla ==
  /\ pc = "inicio"
  /\ pc' = "fin"
  /\ UNCHANGED <<metricas, max_intentos, datos, cargado, matriz_distancias, matriz_tiempos, capacidades,
                 cap_total, rutas_ids, patios_ids, prob, x, formulacion, resultados, i,
                 retorno, archivos, salida, eventos>>

\* where main goes after verificar_factibilidad
TrasVerificar(ok) ==
  IF ok THEN [pc |-> "directo_crear", i |-> 0] ELSE [pc |-> "rel_crear", i |-> 1]

\* main calls verificar_factibilidad
VerificarFactibilidad ==
  /\ pc = "cargado"
  /\ LET v == verificar_factibilidad_basica(matriz_distancias, capacidades, rutas_ids)
     IN /\ salida' = Append(salida, Reporte("verificar", 0, v.lineas))
        /\ eventos' = Append(eventos, Evento("verificar", "main", 0, SinFormulacion,
                                             IF v.ok THEN "True" ELSE "False"))
        /\ pc' = TrasVerificar(v.ok).pc
        /\ i' = TrasVerificar(v.ok).i
  /\ UNCHANGED <<metricas, max_intentos, entradas, patios_ids, prob, x, formulacion, resultados, retorno, archivos>>

\* a call of crear_modelo_ple by origen
Crear(origen, intento, objetivo, balance_carga, relajar_restricciones, pc_ok) ==
  LET m == crear_modelo_ple(matriz_distancias, matriz_tiempos, capacidades, rutas_ids,
                            objetivo, balance_carga, relajar_restricciones)
      form == <<objetivo, balance_carga, relajar_restricciones>>
  IN /\ patios_ids' = m.patios_ids
     /\ capacidades' = m.capacidades
     /\ x' = m.x
     /\ prob' = m.prob
     /\ formulacion' = form
     /\ eventos' = Append(eventos, Evento("crear", origen, intento, form,
                                          IF m.excepcion THEN "KeyError" ELSE "True"))
     /\ pc' = IF m.excepcion THEN "abortado" ELSE pc_ok

\* main builds the strict model
CrearModeloDirecto ==
  /\ pc = "directo_crear"
  /\ Crear("main", 0, "distancia", TRUE, FALSE, "directo_resolver")
  /\ UNCHANGED <<metricas, max_intentos, fijas, resultados, i, retorno, archivos, salida>>

\* TrasErrorSolver with the exception caught and the attempt counted as failed
TrasErrorSolverContinua(n, sigue) == sigue

\* where the run goes when self.prob.solve raises in attempt n: nothing
\* catches it (sigue is where a failed attempt that returned would go)
TrasErrorSolver(n, sigue) == [pc |-> "abortado", i |-> n, retorno |-> "ninguno"]

\* Resolver with the diagnosis run on the capacities of the model just
\* solved (relaxed when the formulation relaxes them) instead of
\* self.capacidades
ResolverDiagnosticaModelo(origen, intento, r) ==
  /\ prob' = [prob EXCEPT !.status = r.status, !.valores = r.valores]
  /\ eventos' = Append(eventos, Evento("resolver", origen, intento, formulacion, r.status))
  /\ salida' = IF r.status = "Infeasible"
               THEN Append(salida,
                           Reporte("diagnostico", intento,
                                   diagnosticar_infactibilidad(
                                     matriz_distancias,
                                     IF formulacion[3] THEN relajar_capacidades(capacidades, 3, 2)
                                     ELSE capacidades,
                                     rutas_ids, patios_ids)))
               ELSE salida

\* a call of resolver_modelo by origen: the solver leaves a status and
\* values, or raises; an Infeasible status runs the diagnosis
Resolver(origen, intento, r) ==
  /\ prob' = [prob EXCEPT !.status = r.status, !.valores = r.valores]
  /\ eventos' = Append(eventos, Evento("resolver", origen, intento, formulacion, r.status))
  /\ salida' = IF r.status = "Infeasible"
               THEN Append(salida,
                           Reporte("diagnostico", intento,
                                   diagnosticar_infactibilidad(matriz_distancias, capacidades,
                                                               rutas_ids, patios_ids)))
               ELSE salida

\* self.prob.solve raises inside resolver_modelo
ResolverError(origen, intento) ==
  /\ eventos' = Append(eventos, Evento("resolver", origen, intento, formulacion, "Error"))
  /\ UNCHANGED <<prob, salida>>

\* where main goes after its own resolver_modelo
TrasResolverDirecto(exito) ==
  IF exito THEN [pc |-> "fin", i |-> 0] ELSE [pc |-> "rel_crear", i |-> 1]

\* main solves the strict model
ResolverModeloDirecto ==
  /\ pc = "directo_resolver"
  /\ \E r \in ResultadosSolver(prob, x) :
       /\ Resolver("main", 0, r)
       /\ pc' = TrasResolverDirecto(r.status = "Optimal").pc
       /\ i' = TrasResolverDirecto(r.status = "Optimal").i
  /\ UNCHANGED <<metricas, max_intentos, entradas, patios_ids, x, formulacion, resultados, retorno, archivos>>

\* the solver cannot be run for the strict model of main
ResolverModeloDirectoError ==
  /\ pc = "directo_resolver"
  /\ ResolverError("main", 0)
  /\ pc' = TrasErrorSolver(0, SiguienteIntento(0)).pc
  /\ i' = TrasErrorSolver(0, SiguienteIntento(0)).i
  /\ UNCHANGED <<metricas, max_intentos, entradas, patios_ids, x, formulacion, resultados, retorno, archivos>>

(***************************************************************************)
(* resolver_con_relajacion, called by main                                 *)
(***************************************************************************)
\* an iteration of the loop builds the model of strategy i
RelCrearModelo ==
  /\ pc = "rel_crear"
  /\ Crear("relajacion", i, "distancia", Estrategias[i].balance_carga,
           Estrategias[i].relajar_restricciones, "rel_resolver")
  /\ UNCHANGED <<metricas, max_intentos, fijas, resultados, i, retorno, archivos, salida>>

\* where the loop goes after resolver_modelo returned for strategy n
TrasResolverRel(n, exito) ==
  IF exito THEN [pc |-> "rel_extraer", i |-> n, retorno |-> "ninguno"]
  ELSE SiguienteIntento(n)

\* the iteration solves the model of strategy i
RelResolverModelo ==
  /\ pc = "rel_resolver"
  /\ \E r \in ResultadosSolver(prob, x) :
       /\ Resolver("relajacion", i, r)
       /\ pc' = TrasResolverRel(i, r.status = "Optimal").pc
       /\ i' = TrasResolverRel(i, r.status = "Optimal").i
       /\ retorno' = TrasResolverRel(i, r.status = "Optimal").retorno
  /\ UNCHANGED <<metricas, max_intentos, entradas, patios_ids, x, formulacion, resultados, archivos>>

\* the solver cannot be run for the model of strategy i
RelResolverModeloError ==
  /\ pc = "rel_resolver"
  /\ ResolverError("relajacion", i)
  /\ pc' = TrasErrorSolver(i, SiguienteIntento(i)).pc
  /\ i' = TrasErrorSolver(i, SiguienteIntento(i)).i
  /\ retorno' = TrasErrorSolver(i, SiguienteIntento(i)).retorno
  /\ UNCHANGED <<metricas, max_intentos, entradas, patios_ids, x, formulacion, resultados, archivos>>

\* TrasExtraer with a loop that takes every Optimal solve for a success
TrasExtraerSinMirar(n, e) ==
  IF e.excepcion THEN [pc |-> "abortado", i |-> n, retorno |-> "ninguno"]
  ELSE [pc |-> "fin", i |-> n, retorno |-> "True"]

\* where the loop goes after extraer_resultados for strategy n
TrasExtraer(n, e) ==
  IF e.excepcion THEN [pc |-> "abortado", i |-> n, retorno |-> "ninguno"]
  ELSE IF e.retorna THEN [pc |-> "fin", i |-> n, retorno |-> "True"]
  ELSE SiguienteIntento(n)

\* after a success of resolver_modelo the iteration extracts the results
\* and, when there are rows, writes them to the file of the strategy
RelExtraerResultados ==
  /\ pc = "rel_extraer"
  /\ LET e == extraer_resultados(prob, x, patios_ids, rutas_ids, matriz_distancias,
                                 matriz_tiempos)
     IN /\ resultados' = IF e.excepcion THEN resultados ELSE e.filas
        /\ metricas' = IF e.excepcion \/ e.filas = {} THEN metricas
                       ELSE calcular_metricas(e.filas)
        /\ archivos' = IF e.retorna
                       THEN {a \in archivos : a.nombre # NombreArchivo(Estrategias[i].nombre)}
                              \cup {[nombre |-> NombreArchivo(Estrategias[i].nombre),
                                     filas |-> e.filas]}
                       ELSE archivos
        /\ eventos' = Append(eventos,
                             Evento("extraer", "relajacion", i, formulacion,
                                    IF e.excepcion THEN "KeyError"
                                    ELSE IF e.retorna THEN "Filas" ELSE "None"))
        /\ pc' = TrasExtraer(i, e).pc
        /\ i' = TrasExtraer(i, e).i
        /\ retorno' = TrasExtraer(i, e).retorno
  /\ UNCHANGED <<max_intentos, entradas, patios_ids, prob, x, formulacion, salida>>

Next ==
  \/ CargarDatos
  \/ CargarDatosFalla
  \/ VerificarFactibilidad
  \/ CrearModeloDirecto
  \/ ResolverModeloDirecto
  \/ ResolverModeloDirectoError
  \/ RelCrearModelo
  \/ RelResolverModelo
  \/ RelResolverModeloError
  \/ RelExtraerResultados

Spec == Init /\ [][Next]_vars

(***************************************************************************)
(* resolver_con_relajacion called on a loaded optimizer with an argument   *)
(***************************************************************************)
\* the shapes of the cost table of the optimizer: no row, or a row for each
\* patio with no route, one, two or all of them
FormasRelajacion ==
  {<<>>} \cup [Patios -> {{}, {"A"}, {"A", "B"}, Rutas}]

\* its capacity tables: empty, or the same capacity for each patio
TablasRelajacion ==
  {<<>>} \cup {[p \in Patios |-> c] : c \in 0..MaxCap}

\* the optimizer has loaded its documents and resolver_con_relajacion is
\* entered with some max_intentos
InitRelajacion ==
  /\ datos \in UNION {{Documento(f, g, c) :
                         g \in FormasTiempo(f), c \in TablasRelajacion} :
                        f \in FormasRelajacion}
  /\ cargado = TRUE
  /\ matriz_distancias = datos.distancias
  /\ matriz_tiempos = datos.tiempos
  /\ capacidades = datos.capacidades
  /\ cap_total = datos.cap_total
  /\ rutas_ids = TodasRutas(datos.distancias)
  /\ patios_ids = <<>>
  /\ prob = SinProblema
  /\ x = {}
  /\ formulacion = SinFormulacion
  /\ resultados = {}
  /\ metricas = SinMetricas
  /\ max_intentos \in 0..MaxIntentos
  /\ i = 1
  /\ retorno = "ninguno"
  /\ archivos = {}
  /\ salida = <<>>
  /\ eventos = <<>>
  /\ pc = "rel_crear"

NextRelajacion ==
  \/ RelCrearModelo
  \/ RelResolverModelo
  \/ RelResolverModeloError
  \/ RelExtraerResultados

\* the call runs to its end: every step of the loop is taken
SpecRelajacion == InitRelajacion /\ [][NextRelajacion]_vars /\ WF_vars(NextRelajacion)

(***************************************************************************)
(* The methods called one by one by a client that supplies the data        *)
(***************************************************************************)
\* the shapes matriz_tiempos can have when the client supplies it: that of
\* matriz_distancias, or one that differs in one row, which is a route
\* shorter, a route longer, or missing
FormasTiempoCliente(f) ==
  IF DOMAIN f = {} THEN {f}
  ELSE LET k == CHOOSE p \in DOMAIN f : TRUE
       IN {f, [p \in DOMAIN f \ {k} |-> f[p]]}
            \cup (IF f[k] # {}
                  THEN {[f EXCEPT ![k] = f[k] \ {CHOOSE r \in f[k] : TRUE}]} ELSE {})
            \cup (IF f[k] # Rutas
                  THEN {[f EXCEPT ![k] = f[k] \cup {CHOOSE r \in Rutas \ f[k] : TRUE}]}
                  ELSE {})

\* the optimizer holds data a client supplied: rutas_ids is any list of
\* route ids, not necessarily the keys of the rows
InitCliente ==
  /\ datos \in {Documento(f, f, c) :
                   f \in Formas, c \in {t \in TablasCapacidad : PatioExtra \notin DOMAIN t}}
  /\ cargado = TRUE
  /\ matriz_distancias = datos.distancias
  /\ \E g \in FormasTiempoCliente(FormaDe(datos.distancias)) :
       matriz_tiempos = Tabla(TiempoBase, g)
  /\ capacidades = datos.capacidades
  /\ cap_total = datos.cap_total
  /\ rutas_ids \in SUBSET Rutas
  /\ patios_ids = <<>>
  /\ prob = SinProblema
  /\ x = {}
  /\ formulacion = SinFormulacion
  /\ resultados = {}
  /\ metricas = SinMetricas
  /\ max_intentos = MAX_INTENTOS_DEFAULT
  /\ i = 0
  /\ retorno = "ninguno"
  /\ archivos = {}
  /\ salida = <<>>
  /\ eventos = <<>>
  /\ pc = "cliente"

\* the client calls verificar_factibilidad
ClienteVerificar ==
  /\ pc = "cliente"
  /\ LET v == verificar_factibilidad_basica(matriz_distancias, capacidades, rutas_ids)
     IN /\ salida' = Append(salida, Reporte("verificar", 0, v.lineas))
        /\ eventos' = Append(eventos, Evento("verificar", "cliente", 0, SinFormulacion,
                                             IF v.ok THEN "True" ELSE "False"))
  /\ pc' = "cliente_verificado"
  /\ UNCHANGED <<metricas, max_intentos, entradas, patios_ids, prob, x, formulacion, resultados, i, retorno,
                 archivos>>

\* the client calls crear_modelo_ple with arguments of its choice
ClienteCrearModelo ==
  /\ pc = "cliente_verificado"
  /\ \E objetivo \in {"distancia", "tiempo"}, balance_carga \in BOOLEAN,
        relajar_restricciones \in BOOLEAN :
       Crear("cliente", 0, objetivo, balance_carga, relajar_restricciones, "cliente_creado")
  /\ UNCHANGED <<metricas, max_intentos, fijas, resultados, i, retorno, archivos, salida>>

NextCliente ==
  \/ ClienteVerificar
  \/ ClienteCrearModelo

SpecCliente == InitCliente /\ [][NextCliente]_vars

(***************************************************************************)
(* OptimizadorBusesPatios (src/model.py): the per-bus variant.  Its run    *)
(* uses the same state: rutas_ids holds rutas_ids_expandidas,              *)
(* matriz_distancias holds distancias_df (bus, then patio), prob holds     *)
(* self.modelo with its variables and their values.                        *)
(***************************************************************************)
\* Config.VELOCIDAD_PROMEDIO (km/h)
VELOCIDAD_PROMEDIO == 20
\* costo_km of construir_modelo
COSTO_KM == 2500
\* costo_operacion_patio of construir_modelo
COSTO_OPERACION_PATIO == 1000000
\* the weight of t_max in the objective
PESO_TIEMPO == 500000
\* M of the time constraints (hours)
M_HORAS == 4
\* gapRel of resolver, in percent
GAP_BUSES == 5

\* the lists rutas_ids_expandidas that calcular_distancias can produce: every
\* route has at least one bus
ListasBuses ==
  {{"ruta_0_bus_0"}, {"ruta_0_bus_0", "ruta_0_bus_1"}, {"ruta_0_bus_0", "ruta_1_bus_0"}}

\* the ids f"patio_{objectid}" of the patios
PatiosBuses == {"patio_1", "patio_2"}

\* p.replace('patio_', '')
SinPrefijo(p) == IF p = "patio_1" THEN "1" ELSE "2"

\* bus_id.split('_bus_')[0]
RutaOriginal(b) == IF b = "ruta_1_bus_0" THEN "ruta_1" ELSE "ruta_0"

\* distancias_df: the distance (km) of the centroid of the route of a bus to
\* each patio; the buses of a route share it
DistanciasBuses(buses, patios) ==
  [b \in buses |->
     [q \in patios |->
        IF RutaOriginal(b) = "ruta_0" THEN (IF q = "patio_1" THEN 2 ELSE 1)
        ELSE (IF q = "patio_1" THEN 1 ELSE 3)]]

\* the largest distance of distancias_df
MaxDistancia == 3

\* the capacity tables of capacidades_patios.json, keyed by the bare id
TablasCapacidadBuses ==
  UNION {[K -> 0..MaxCap] : K \in SUBSET {SinPrefijo(q) : q \in PatiosBuses}}

\* the values of the variables before any solve
SinValores == [x |-> {}, y |-> {}, t_max |-> 0]

\* self.modelo as construir_modelo builds it, with the variables x[b, p], y[p]
\* and t_max, the cost objective and the three families of constraints, the
\* capacity constraints with the given right-hand side form.  Times are kept
\* in units of 1/VELOCIDAD_PROMEDIO hour, t_max included.
ModeloBuses(buses, patios, dist, caps, sentido_capacidad) ==
  [creado |-> TRUE,
   nombre |-> "Asignacion_Buses_Patios",
   variables |-> [x |-> buses \X patios, y |-> patios],
   objetivo |-> [x |-> {<<q[1], q[2], dist[q[1]][q[2]] * COSTO_KM * 2>> : q \in buses \X patios},
                 y |-> COSTO_OPERACION_PATIO,
                 t_max |-> PESO_TIEMPO],
   restricciones |->
     {Restriccion("Asignacion_unica", b, {<<b, q>> : q \in patios}, "=", 1) : b \in buses}
       \cup
     {Restriccion("Capacidad", q, {<<b, q>> : b \in buses}, sentido_capacidad,
                  Get(caps, SinPrefijo(q), CAPACIDAD_PATIO_DEFAULT)) : q \in patios}
       \cup
     {Restriccion("Tiempo_max", r[1], {r}, "<=t_max", dist[r[1]][r[2]]) : r \in buses \X patios},
   status |-> "Not Solved",
   valores |-> SinValores]

\* construir_modelo with a capacity constraint that leaves out y[p]:
\* sum x[b,p] <= capacidades[p]
construir_modelo_sin_activacion(buses, patios, dist, caps) ==
  ModeloBuses(buses, patios, dist, caps, "<=")

\* construir_modelo: the capacity of a patio counts only when the patio is
\* active, sum x[b,p] <= capacidades[p] * y[p]
construir_modelo(buses, patios, dist, caps) ==
  ModeloBuses(buses, patios, dist, caps, "<=y")

\* the values v of the variables satisfy constraint r of self.modelo
CumpleBuses(v, r) ==
  LET n == Cardinality(v.x \cap r.pares)
  IN CASE r.sentido = "=" -> n = r.rhs
       [] r.sentido = "<=y" -> n <= r.rhs * (IF r.id \in v.y THEN 1 ELSE 0)
       [] r.sentido = "<=" -> n <= r.rhs
       [] OTHER -> r.rhs * n <= v.t_max + M_HORAS * VELOCIDAD_PROMEDIO * (1 - n)

\* the values the variables of self.modelo can take
PuntosBuses(m) ==
  {[x |-> S, y |-> Y, t_max |-> t] :
     S \in SUBSET m.variables.x, Y \in SUBSET m.variables.y, t \in 0..MaxDistancia}

\* the feasible points of self.modelo
FactiblesBuses(m) ==
  {v \in PuntosBuses(m) : \A r \in m.restricciones : CumpleBuses(v, r)}

\* the objective at a point; t_max is v.t_max / VELOCIDAD_PROMEDIO hours
CostoBuses(m, v) ==
  SumaCoef({t \in m.objetivo.x : <<t[1], t[2]>> \in v.x})
    + m.objetivo.y * Cardinality(v.y)
    + (m.objetivo.t_max * v.t_max) \div VELOCIDAD_PROMEDIO

\* the points the solver may return as optimal: within the gap of the best
AceptablesBuses(m) ==
  LET F == FactiblesBuses(m)
  IN {v \in F : \A w \in F : CostoBuses(m, v) * 100 <= CostoBuses(m, w) * (100 + GAP_BUSES)}

\* the values a solve that did not end Optimal can leave in the 0/1
\* variables: nothing guarantees them
ValoresSinGarantia(m) ==
  {[x |-> S, y |-> Y, t_max |-> 0] : S \in SUBSET m.variables.x, Y \in SUBSET m.variables.y}

\* what self.modelo.solve can leave in the status and in the variables
ResultadosSolverBuses(m) ==
  {[status |-> "Optimal", valores |-> v] : v \in AceptablesBuses(m)}
    \cup (IF FactiblesBuses(m) = {}
          THEN {[status |-> "Infeasible", valores |-> v] : v \in ValoresSinGarantia(m)}
          ELSE {})
    \cup {[status |-> e, valores |-> v] : e \in EstadosNoOptimos, v \in ValoresSinGarantia(m)}

\* parsear_nombre_variable: the bus and the patio in the name that PuLP gives
\* the variable of a key, "Asignacion_('<bus>',_'<patio>')"
parsear_nombre_variable(clave) == [bus_id |-> clave[1], patio_id |-> clave[2]]

\* the rows of resultados_detallados: one per variable Asignacion whose
\* value is 1, whatever the status of self.modelo
FilasDetalladas(m, dist) ==
  {[ruta_original |-> RutaOriginal(parsear_nombre_variable(q).bus_id),
    bus_id |-> parsear_nombre_variable(q).bus_id,
    patio_id |-> parsear_nombre_variable(q).patio_id,
    distancia_km |-> dist[q[1]][q[2]]] : q \in m.variables.x \cap m.valores.x}

\* the rows of resumen_por_ruta.csv
FilasResumen(filas) ==
  {[ruta |-> r,
    patios_asignados |-> {f.patio_id : f \in {g \in filas : g.ruta_original = r}},
    total_buses |-> Cardinality({g \in filas : g.ruta_original = r})] :
     r \in {f.ruta_original : f \in filas}}

\* guardar_resultados: the files it writes; the two CSV files only when there
\* are rows, resumen_ejecutivo.txt always
guardar_resultados(m, dist) ==
  LET filas == FilasDetalladas(m, dist)
  IN (IF filas # {}
      THEN {[nombre |-> "asignaciones_detalladas.csv", filas |-> filas],
            [nombre |-> "resumen_por_ruta.csv", filas |-> FilasResumen(filas)]}
      ELSE {})
       \cup {[nombre |-> "resumen_ejecutivo.txt", filas |-> {[estado |-> m.status]}]}

\* the optimizer after cargar_datos_procesados and calcular_distancias
InitBuses ==
  /\ datos \in {[buses |-> B, patios |-> Q, capacidades |-> c] :
                  B \in ListasBuses, Q \in SUBSET PatiosBuses \ {{}},
                  c \in TablasCapacidadBuses}
  /\ cargado = TRUE
  /\ matriz_distancias = DistanciasBuses(datos.buses, datos.patios)
  /\ matriz_tiempos = <<>>
  /\ capacidades = datos.capacidades
  /\ cap_total = 0
  /\ rutas_ids = datos.buses
  /\ patios_ids = SelectSeq(<<"patio_1", "patio_2">>, LAMBDA q : q \in datos.patios)
  /\ prob = SinProblema
  /\ x = {}
  /\ formulacion = SinFormulacion
  /\ resultados = {}
  /\ metricas = SinMetricas
  /\ max_intentos = MAX_INTENTOS_DEFAULT
  /\ i = 0
  /\ retorno = "ninguno"
  /\ archivos = {}
  /\ salida = <<>>
  /\ eventos = <<>>
  /\ pc = "buses_construir"

\* main runs the step construir_modelo
BusesConstruirModelo ==
  /\ pc = "buses_construir"
  /\ prob' = construir_modelo(rutas_ids, Rango(patios_ids), matriz_distancias, capacidades)
  /\ eventos' = Append(eventos, Evento("construir", "buses", 0, SinFormulacion, "True"))
  /\ pc' = "buses_resolver"
  /\ UNCHANGED <<metricas, max_intentos, entradas, patios_ids, x, formulacion, resultados, i, retorno, archivos,
                 salida>>

\* main runs the step resolver: the solve, then the statistics and
\* guardar_resultados, whatever the status; resolver returns True
BusesResolver ==
  /\ pc = "buses_resolver"
  /\ \E r \in ResultadosSolverBuses(prob) :
       LET m == [prob EXCEPT !.status = r.status, !.valores = r.valores]
       IN /\ prob' = m
          /\ archivos' = archivos \cup guardar_resultados(m, matriz_distancias)
          /\ eventos' = Append(eventos, Evento("resolver", "buses", 0, SinFormulacion, r.status))
  /\ retorno' = "True"
  /\ pc' = "buses_fin"
  /\ UNCHANGED <<metricas, max_intentos, entradas, patios_ids, x, formulacion, resultados, i, salida>>

\* self.modelo.solve raises: resolver catches it and returns False
BusesResolverError ==
  /\ pc = "buses_resolver"
  /\ eventos' = Append(eventos, Evento("resolver", "buses", 0, SinFormulacion, "Error"))
  /\ retorno' = "False"
  /\ pc' = "buses_fin"
  /\ UNCHANGED <<metricas, max_intentos, entradas, patios_ids, prob, x, formulacion, resultados, i, archivos,
                 salida>>

NextBuses ==
  \/ BusesConstruirModelo
  \/ BusesResolver
  \/ BusesResolverError

SpecBuses == InitBuses /\ [][NextBuses]_vars

(***************************************************************************)
(* A client that holds its own list of routes builds a model, solves it    *)
(* and extracts the results                                                *)
(***************************************************************************)
\* the optimizer holds cost tables of the same shape and a list of routes
\* that is the keys of the rows or every route the client knows
InitSesion ==
  /\ datos \in {Documento(f, f, c) :
                   f \in Formas, c \in {t \in TablasCapacidad : PatioExtra \notin DOMAIN t}}
  /\ cargado = TRUE
  /\ matriz_distancias = datos.distancias
  /\ matriz_tiempos = datos.tiempos
  /\ capacidades = datos.capacidades
  /\ cap_total = datos.cap_total
  /\ rutas_ids \in {TodasRutas(datos.distancias), Rutas}
  /\ patios_ids = <<>>
  /\ prob = SinProblema
  /\ x = {}
  /\ formulacion = SinFormulacion
  /\ resultados = {}
  /\ metricas = SinMetricas
  /\ max_intentos = MAX_INTENTOS_DEFAULT
  /\ i = 0
  /\ retorno = "ninguno"
  /\ archivos = {}
  /\ salida = <<>>
  /\ eventos = <<>>
  /\ pc = "sesion"

\* the client calls crear_modelo_ple for the distance objective
SesionCrearModelo ==
  /\ pc = "sesion"
  /\ \E balance_carga \in BOOLEAN, relajar_restricciones \in BOOLEAN :
       Crear("cliente", 0, "distancia", balance_carga, relajar_restricciones, "sesion_creado")
  /\ UNCHANGED <<metricas, max_intentos, fijas, resultados, i, retorno, archivos, salida>>

\* the client calls resolver_modelo
SesionResolverModelo ==
  /\ pc = "sesion_creado"
  /\ \E r \in ResultadosSolver(prob, x) : Resolver("cliente", 0, r)
  /\ pc' = "sesion_resuelto"
  /\ UNCHANGED <<metricas, max_intentos, entradas, patios_ids, x, formulacion, resultados, i, retorno, archivos>>

\* the client calls extraer_resultados
SesionExtraerResultados ==
  /\ pc = "sesion_resuelto"
  /\ LET e == extraer_resultados(prob, x, patios_ids, rutas_ids, matriz_distancias,
                                 matriz_tiempos)
     IN /\ resultados' = IF e.ejecuta /\ ~e.excepcion THEN e.filas ELSE resultados
        /\ metricas' = IF e.ejecuta /\ ~e.excepcion /\ e.filas # {}
                       THEN calcular_metricas(e.filas) ELSE metricas
        /\ eventos' = Append(eventos,
                             Evento("extraer", "cliente", 0, formulacion,
                                    IF e.excepcion THEN "KeyError"
                                    ELSE IF e.retorna THEN "Filas" ELSE "None"))
        /\ pc' = IF e.excepcion THEN "abortado" ELSE "sesion_extraido"
  /\ UNCHANGED <<max_intentos, entradas, patios_ids, prob, x, formulacion, i, retorno, archivos, salida>>

NextSesion ==
  \/ SesionCrearModelo
  \/ SesionResolverModelo
  \/ SesionExtraerResultados

SpecSesion == InitSesion /\ [][NextSesion]_vars

(***************************************************************************)
(* The pre-check and the diagnosis on cost tables with many patios         *)
(***************************************************************************)
\* a cost table with the first n patios: those of llenos hold routes A and
\* B, the others hold no route
TablaDiag(base, n, llenos) ==
  [p \in {PatiosDiag[k] : k \in 1..n} |->
     IF p \in llenos THEN [r \in {"A", "B"} |-> base["X"][r]] ELSE <<>>]

\* the capacity tables for those patios: empty, or the same capacity for all
TablasCapacidadDiag(n) ==
  {<<>>} \cup {[p \in {PatiosDiag[k] : k \in 1..n} |-> c] : c \in 0..MaxCap}

\* the optimizer holds such tables; rutas_ids is the keys of the rows
InitDiagnostico ==
  /\ datos \in UNION {{[distancias |-> TablaDiag(DistBase, n, L),
                        tiempos |-> TablaDiag(TiempoBase, n, L),
                        capacidades |-> c, cap_total |-> SumaValores(c)] :
                         L \in SUBSET ({PatiosDiag[1], PatiosDiag[2], PatiosDiag[n]}),
                         c \in TablasCapacidadDiag(n)} : n \in 2..MaxPatiosDiag}
  /\ cargado = TRUE
  /\ matriz_distancias = datos.distancias
  /\ matriz_tiempos = datos.tiempos
  /\ capacidades = datos.capacidades
  /\ cap_total = datos.cap_total
  /\ rutas_ids = TodasRutas(datos.distancias)
  /\ patios_ids = <<>>
  /\ prob = SinProblema
  /\ x = {}
  /\ formulacion = SinFormulacion
  /\ resultados = {}
  /\ metricas = SinMetricas
  /\ max_intentos = MAX_INTENTOS_DEFAULT
  /\ i = 0
  /\ retorno = "ninguno"
  /\ archivos = {}
  /\ salida = <<>>
  /\ eventos = <<>>
  /\ pc = "diag"

\* verificar_factibilidad is called
DiagVerificar ==
  /\ pc = "diag"
  /\ LET v == verificar_factibilidad_basica(matriz_distancias, capacidades, rutas_ids)
     IN /\ salida' = Append(salida, Reporte("verificar", 0, v.lineas))
        /\ eventos' = Append(eventos, Evento("verificar", "cliente", 0, SinFormulacion,
                                             IF v.ok THEN "True" ELSE "False"))
  /\ pc' = "diag_verificado"
  /\ UNCHANGED <<metricas, max_intentos, entradas, patios_ids, prob, x, formulacion, resultados, i,
                 retorno, archivos>>

\* crear_modelo_ple is called for the strict or a relaxed formulation
DiagCrearModelo ==
  /\ pc = "diag_verificado"
  /\ \E relajar_restricciones \in BOOLEAN :
       Crear("cliente", 0, "distancia", TRUE, relajar_restricciones, "diag_creado")
  /\ UNCHANGED <<metricas, max_intentos, fijas, resultados, i, retorno, archivos, salida>>

\* _diagnosticar_infactibilidad is called on the model built
DiagDiagnosticar ==
  /\ pc = "diag_creado"
  /\ salida' = Append(salida,
                      Reporte("diagnostico", 0,
                              diagnosticar_infactibilidad(matriz_distancias, capacidades,
                                                          rutas_ids, patios_ids)))
  /\ eventos' = Append(eventos, Evento("diagnosticar", "cliente", 0, formulacion, "None"))
  /\ pc' = "diag_diagnosticado"
  /\ UNCHANGED <<metricas, max_intentos, entradas, patios_ids, prob, x, formulacion, resultados, i,
                 retorno, archivos>>

NextDiagnostico ==
  \/ DiagVerificar
  \/ DiagCrearModelo
  \/ DiagDiagnosticar

SpecDiagnostico == InitDiagnostico /\ [][NextDiagnostico]_vars

(***************************************************************************)
(* Properties                                                              *)
(***************************************************************************)
\* the events of resolver_con_relajacion, in order
EventosRelajacion == SelectSeq(eventos, LAMBDA e : e.origen = "relajacion")

\* the builds of resolver_con_relajacion, in order
CreadosRelajacion == SelectSeq(EventosRelajacion, LAMBDA e : e.op = "crear")

\* the event is an attempt of strategy n that ended without success
IntentoFallido(e, n) ==
  /\ e.intento = n
  /\ \/ e.op = "resolver" /\ e.status \in {"Infeasible"} \cup EstadosNoOptimos
     \/ e.op = "extraer" /\ e.status = "None"

\* C1: resolver_con_relajacion builds its strategies in list order
\* (Estricto, Relajado 1, Relajado 2), the build of strategy n + 1 comes
\* right after an attempt of strategy n that ended without success, and
\* nothing is built or solved after an attempt has succeeded.
C1_OrdenYPrimerExito ==
  /\ \A k \in DOMAIN CreadosRelajacion :
       /\ k <= Len(Estrategias)
       /\ CreadosRelajacion[k].intento = k
       /\ CreadosRelajacion[k].formulacion =
            <<"distancia", Estrategias[k].balance_carga, Estrategias[k].relajar_restricciones>>
  /\ \A k \in DOMAIN EventosRelajacion :
       (EventosRelajacion[k].op = "crear" /\ EventosRelajacion[k].intento > 1)
         => /\ k > 1
            /\ IntentoFallido(EventosRelajacion[k - 1], EventosRelajacion[k].intento - 1)
  /\ \A k \in DOMAIN eventos :
       (eventos[k].op = "extraer" /\ eventos[k].status = "Filas")
         => k = Len(eventos) /\ retorno = "True" /\ pc = "fin"

\* C1 witness: the search returned True with its second or third strategy
C1_Witness ==
  /\ pc = "fin"
  /\ retorno = "True"
  /\ i >= 2
  /\ Len(CreadosRelajacion) = i

\* C4: when the solver cannot be run (solve raises), the run is aborted and
\* nothing is built, solved or extracted afterwards: the failed invocation
\* is the last event.
C4_ErrorAborta ==
  \A k \in DOMAIN eventos :
    (eventos[k].op = "resolver" /\ eventos[k].status = "Error")
      => k = Len(eventos) /\ pc = "abortado" /\ retorno = "ninguno"

\* C4 witness: the solver failed in the second strategy of the search, after
\* a first strategy that was attempted
C4_Witness ==
  /\ pc = "abortado"
  /\ Len(eventos) > 0
  /\ eventos[Len(eventos)].op = "resolver"
  /\ eventos[Len(eventos)].status = "Error"
  /\ eventos[Len(eventos)].origen = "relajacion"
  /\ eventos[Len(eventos)].intento = 2

\* the data loaded have more routes than total capacity
Deficit == Cardinality(rutas_ids) > SumaValores(capacidades)

\* the reports of the pre-check printed so far
ReportesVerificar == SelectSeq(salida, LAMBDA r : r.origen = "verificar")

\* C7: with more routes than the sum of the capacities, the pre-check
\* answers False and reports the insufficient capacity, and it does so
\* before any model is built or handed to the solver: every build and every
\* solve of the run comes after that report.
C7_DeficitAntesDeModelo ==
  (cargado /\ Deficit) =>
    /\ \A k \in DOMAIN eventos :
         eventos[k].op \in {"crear", "resolver"} =>
           \E m \in 1..(k - 1) : eventos[m].op = "verificar" /\ eventos[m].status = "False"
    /\ \A k \in DOMAIN eventos :
         eventos[k].op = "verificar" =>
           /\ eventos[k].status = "False"
           /\ \A m \in 1..(k - 1) : eventos[m].op \notin {"crear", "resolver"}
           /\ Len(ReportesVerificar) = 1
           /\ ReportesVerificar[1].lineas =
                {Linea("CapacidadInsuficiente", {}, Cardinality(rutas_ids),
                       SumaValores(capacidades))}

\* C7 witness: routes A and B, the single patio X of capacity 1 reachable
\* by both: the pre-check has reported 2 routes against a capacity of 1 and
\* nothing has been built or solved
C7_Witness ==
  /\ FormaDe(matriz_distancias) = [p \in {"X"} |-> {"A", "B"}]
  /\ capacidades = [p \in {"X"} |-> 1]
  /\ Len(eventos) = 1
  /\ eventos[1].op = "verificar"
  /\ salida = <<Reporte("verificar", 0, {Linea("CapacidadInsuficiente", {}, 2, 1)})>>

\* the solves of the run, in order
Resueltos == SelectSeq(eventos, LAMBDA e : e.op = "resolver")

\* the pairs (patio, route) of the rows extracted
ParesExtraidos(filas) == {<<f.patio_id, f.ruta_id>> : f \in filas}

\* C2: when main has ended after a solve that ended Optimal with routes
\* assigned, that solve was the last attempt of the run and its assignment
\* was extracted and written to the file of the strategy that succeeded;
\* this covers the strict solve of main as well as the attempts of
\* resolver_con_relajacion.
C2_OptimoExtraeYGuarda ==
  (pc = "fin" /\ prob.status = "Optimal" /\ prob.valores # {}) =>
    /\ ParesExtraidos(resultados) = prob.valores
    /\ \E a \in archivos : ParesExtraidos(a.filas) = prob.valores

\* C3: no formulation (objective, balance_carga, relajar_restricciones) is
\* handed to the solver twice in a run, the strict solve of main included.
C3_SinReintentoVerbatim ==
  \A k, m \in DOMAIN Resueltos :
    k # m => Resueltos[k].formulacion # Resueltos[m].formulacion

\* the diagnoses printed so far
Diagnosticos == SelectSeq(salida, LAMBDA r : r.origen = "diagnostico")

\* C5: when resolver_con_relajacion has returned False, the diagnosis of its
\* first attempt is available with that outcome (here: it was at least
\* printed for the first strategy).
C5_FalloConPrimerDiagnostico ==
  retorno = "False" =>
    \E k \in DOMAIN Diagnosticos :
      /\ Diagnosticos[k].intento = 1
      /\ \A m \in DOMAIN Diagnosticos : Diagnosticos[m].intento >= 1 => k <= m

\* the strategies of the search that were attempted before strategy n and
\* did not succeed
IntentosFallidosAntes(n) ==
  {e.intento : e \in {EventosRelajacion[k] : k \in DOMAIN EventosRelajacion}} \ {n}

\* C6: when a strategy succeeds after an earlier attempt failed as
\* infeasible, the outcome identifies the strategy that succeeded and the
\* diagnosis of every earlier failed attempt is still available (here: it
\* was at least printed for that attempt).
C6_ExitoConservaDiagnosticos ==
  (/\ retorno = "True"
   /\ \E k \in DOMAIN EventosRelajacion :
        EventosRelajacion[k].op = "resolver" /\ EventosRelajacion[k].status = "Infeasible")
    => /\ \E a \in archivos : a.nombre = NombreArchivo(Estrategias[i].nombre)
       /\ \A n \in IntentosFallidosAntes(i) :
            \E k \in DOMAIN Diagnosticos : Diagnosticos[k].intento = n

\* the routes listed that no row of matriz_distancias holds
Aisladas == RutasSinPatio(matriz_distancias, rutas_ids)

\* the kinds of line of a report
Tipos(r) == {l.tipo : l \in r.lineas}

\* C8: one call of the pre-check reports every violation it can find: with
\* both a capacity shortfall and isolated routes, its report holds both.
C8_ReportaTodasLasViolaciones ==
  \A k \in DOMAIN ReportesVerificar :
    (Deficit /\ Aisladas # {})
      => {"CapacidadInsuficiente", "RutasSinPatio"} \subseteq Tipos(ReportesVerificar[k])

\* the routes that the reports of the pre-check name as isolated
AisladasReportadas ==
  UNION {l.ids : l \in {q \in UNION {ReportesVerificar[k].lineas : k \in DOMAIN ReportesVerificar} :
                          q.tipo = "RutasSinPatio"}}

\* C9: every listed route that no row of the cost table holds is reported
\* as isolated by the pre-check, and the model has no exactly-one constraint
\* for it.
C9_AisladasReportadasYExcluidas ==
  \A r \in Aisladas :
    /\ Len(ReportesVerificar) > 0 => r \in AisladasReportadas
    /\ \A c \in prob.restricciones : ~(c.nombre = "Ruta_Asignada" /\ c.id = r)

\* the pairs of a listed patio and a listed route with a cost entry
ParesConCosto ==
  {q \in (DOMAIN matriz_distancias) \X rutas_ids : q[2] \in DOMAIN matriz_distancias[q[1]]}

\* the cost table that the objective selector names
TablaObjetivo == IF formulacion[1] = "distancia" THEN matriz_distancias ELSE matriz_tiempos

\* C10: every call of crear_modelo_ple, for either objective selector,
\* returns a model whose variables are exactly the pairs with a cost entry
\* and whose objective has one term per variable, with the cost of the pair
\* in the table of the selector as coefficient.
C10_VariablesYObjetivo ==
  \A k \in DOMAIN eventos :
    (eventos[k].op = "crear" /\ k = Len(eventos))
      => /\ eventos[k].status = "True"
         /\ x = ParesConCosto
         /\ {<<t[1], t[2]>> : t \in prob.objetivo} = x
         /\ \A t \in prob.objetivo :
              /\ t[1] \in DOMAIN TablaObjetivo
              /\ t[2] \in DOMAIN TablaObjetivo[t[1]]
              /\ t[3] = TablaObjetivo[t[1]][t[2]]

\* the listed routes that some row of matriz_distancias holds
RutasConCosto ==
  {r \in rutas_ids : \E p \in DOMAIN matriz_distancias : r \in DOMAIN matriz_distancias[p]}

\* C11: the rows that extraer_resultados returns hold exactly one row for
\* every listed route with a cost entry and no other row, each row pairs its
\* route with a patio whose row of the cost table holds the route, and the
\* file written holds the same rows.
C11_UnaFilaPorRuta ==
  \A k \in DOMAIN eventos :
    (eventos[k].op = "extraer" /\ eventos[k].status = "Filas")
      => /\ \A r \in RutasConCosto : Cardinality({f \in resultados : f.ruta_id = r}) = 1
         /\ \A f \in resultados :
              /\ f.ruta_id \in RutasConCosto
              /\ f.patio_id \in DOMAIN matriz_distancias
              /\ f.ruta_id \in DOMAIN matriz_distancias[f.patio_id]
              /\ f.distancia_km = matriz_distancias[f.patio_id][f.ruta_id]
         /\ \E a \in archivos :
              a.nombre = NombreArchivo(Estrategias[eventos[k].intento].nombre)
                /\ a.filas = resultados

\* C11 witness: three routes were extracted, not all to the same patio
C11_Witness ==
  /\ pc = "fin"
  /\ retorno = "True"
  /\ Cardinality(resultados) = 3
  /\ Cardinality({f.patio_id : f \in resultados}) = 2

\* the listed routes that the row of patio p holds
RutasValidas(p) == {r \in rutas_ids : r \in DOMAIN matriz_distancias[p]}

\* the constraints of the current model with a name, for a patio
RestriccionesDe(nombre, p) ==
  {c \in prob.restricciones : c.nombre = nombre /\ c.id = p}

\* a model has just been built
ModeloCreado ==
  /\ Len(eventos) > 0
  /\ eventos[Len(eventos)].op = "crear"
  /\ eventos[Len(eventos)].status = "True"

\* C12: in every model built, the capacity bound of each patio with valid
\* routes is its capacity (tabled, or the default when the table lacks the
\* patio) times the capacity factor, truncated: factor 1 when unrelaxed and
\* 1.5 when relajar_restricciones is set, for every patio alike.
C12_CotaDeCapacidad ==
  ModeloCreado =>
    \A p \in Rango(patios_ids) :
      RutasValidas(p) # {} =>
        /\ RestriccionesDe("Capacidad_Patio", p) # {}
        /\ \A c \in RestriccionesDe("Capacidad_Patio", p) :
             c.rhs = (Get(capacidades, p, CAPACIDAD_PATIO_DEFAULT)
                        * (IF formulacion[3] THEN 3 ELSE 2)) \div 2

\* floor(average_load * num / den), average_load = |rutas_ids| / |patios_ids|
PisoCarga(num, den) ==
  (Cardinality(rutas_ids) * num) \div (Len(patios_ids) * den)

\* floor(average_load * balance_min_factor) for the current formulation
PisoMin == IF formulacion[3] THEN PisoCarga(3, 10) ELSE PisoCarga(3, 4)

\* floor(average_load * balance_max_factor) for the current formulation
PisoMax == IF formulacion[3] THEN PisoCarga(3, 1) ELSE PisoCarga(5, 4)

\* the balance constraints of the current model are those of the limits
\* min_load and max_load: both bounds for the patios with at least min_load
\* valid routes, none for the others
BalanceCon(min_load, max_load) ==
  \A p \in Rango(patios_ids) :
    IF Cardinality(RutasValidas(p)) >= min_load
    THEN /\ \E c \in RestriccionesDe("Min_Rutas_Patio", p) : c.sentido = ">=" /\ c.rhs = min_load
         /\ \E c \in RestriccionesDe("Max_Rutas_Patio", p) : c.sentido = "<=" /\ c.rhs = max_load
         /\ \A c \in RestriccionesDe("Min_Rutas_Patio", p) \cup RestriccionesDe("Max_Rutas_Patio", p) :
              c.pares = {<<p, r>> : r \in RutasValidas(p)}
    ELSE RestriccionesDe("Min_Rutas_Patio", p) \cup RestriccionesDe("Max_Rutas_Patio", p) = {}

\* a model with load balance has just been built for at least one patio
ModeloConBalance == ModeloCreado /\ formulacion[2] /\ Len(patios_ids) > 0

\* C13 as stated: with load balance, min_load is floor(average_load *
\* balance_min_factor), max_load is floor(average_load * balance_max_factor),
\* and exactly the patios with at least min_load valid routes get the pair
\* of bounds.
C13_BalancePiso ==
  ModeloConBalance => BalanceCon(PisoMin, PisoMax)

\* C13 amended: with load balance, min_load is the larger of 1 and
\* floor(average_load * balance_min_factor), max_load is floor(average_load *
\* balance_max_factor), and exactly the patios with at least min_load valid
\* routes get the pair of bounds.
C13_BalancePisoMinimoUno ==
  ModeloConBalance => BalanceCon(IF PisoMin > 1 THEN PisoMin ELSE 1, PisoMax)

\* C13 witness: a model with load balance where the floor of the lower limit
\* is 0, one patio has both bounds and another has none
C13_Witness ==
  /\ ModeloConBalance
  /\ PisoMin = 0
  /\ \E p \in Rango(patios_ids) : RestriccionesDe("Min_Rutas_Patio", p) # {}
  /\ \E p \in Rango(patios_ids) : RestriccionesDe("Min_Rutas_Patio", p) = {}

\* the files that hold assignment rows
ArchivosDeAsignaciones ==
  {a \in archivos : a.nombre # "resumen_ejecutivo.txt" /\ a.filas # {}}

\* C14: assignment rows are extracted or written only from a solve that
\* ended Optimal: when the status left by the latest solve is not Optimal,
\* no file of assignments has been written and no rows have been extracted.
C14_SoloOptimoProduceAsignacion ==
  (prob.creado /\ prob.status # "Optimal") =>
    /\ ArchivosDeAsignaciones = {}
    /\ resultados = {}

\* C15: an extraction of an Optimal solve that ends without raising has
\* found exactly one patio with value 1 for every listed route; when some
\* route has none or several, the extraction raises instead of returning.
C15_ExtraccionVerificaUnaPorRuta ==
  (pc = "sesion_extraido" /\ prob.status = "Optimal") =>
    \A r \in rutas_ids : Cardinality({q \in prob.valores : q[2] = r}) = 1

\* C16: for the rows extracted, the number of routes per patio counted from
\* the rows is the load that the metrics report for the patio, the metrics
\* have no other patio, and the loads add up to the number of rows.
C16_CargasDeLasMetricas ==
  resultados # {} =>
    /\ DOMAIN metricas.metricas_patios = {f.patio_id : f \in resultados}
    /\ \A p \in DOMAIN metricas.metricas_patios :
         metricas.metricas_patios[p].rutas = Cardinality({f \in resultados : f.patio_id = p})
    /\ SumaValores([p \in DOMAIN metricas.metricas_patios |->
                      metricas.metricas_patios[p].rutas]) = Cardinality(resultados)

\* C16 witness: three routes extracted to two patios, with their metrics
C16_Witness ==
  /\ Cardinality(resultados) = 3
  /\ Cardinality(DOMAIN metricas.metricas_patios) = 2
  /\ \E p \in DOMAIN metricas.metricas_patios : metricas.metricas_patios[p].rutas = 2

\* the instance with routes A, B, C, patio X of capacity 1 and Y of capacity
\* 2, and costs X: A 5, B 9 and Y: A 6, B 4, C 3
Escenario ==
  /\ matriz_distancias =
       [p \in {"X", "Y"} |->
          IF p = "X" THEN [r \in {"A", "B"} |-> IF r = "A" THEN 5 ELSE 9]
          ELSE [r \in {"A", "B", "C"} |-> IF r = "A" THEN 6 ELSE IF r = "B" THEN 4 ELSE 3]]
  /\ capacidades = [p \in {"X", "Y"} |-> IF p = "X" THEN 1 ELSE 2]

\* C17: on that instance, whenever the run extracts an assignment it is
\* A to X, B to Y and C to Y, of total cost 12, with patio X loaded to its
\* capacity; and only the strict formulation can be reported infeasible.
C17_EscenarioOptimo ==
  Escenario =>
    /\ resultados # {} =>
         /\ ParesExtraidos(resultados) = {<<"X", "A">>, <<"Y", "B">>, <<"Y", "C">>}
         /\ metricas.distancia_total = 12
         /\ metricas.metricas_patios["X"].rutas * 100 = capacidades["X"] * 100
    /\ \A k \in DOMAIN Resueltos :
         Resueltos[k].status = "Infeasible" => Resueltos[k].formulacion = <<"distancia", TRUE, FALSE>>

\* C17 witness: the run on that instance has ended with three routes
\* extracted and written
C17_Witness ==
  /\ Escenario
  /\ pc = "fin"
  /\ retorno = "True"
  /\ Cardinality(resultados) = 3
  /\ archivos # {}

\* the step is a call of crear_modelo_ple that returned
PasoCrear ==
  /\ Len(eventos') = Len(eventos) + 1
  /\ eventos'[Len(eventos')].op = "crear"
  /\ eventos'[Len(eventos')].status = "True"

\* C18: every call of crear_modelo_ple leaves the model (variables,
\* objective, constraints) that its parameters give on the data as loaded,
\* whatever was built before, and leaves the cost tables, the capacities and
\* the routes as they were: two calls with the same parameters leave the
\* same model.
C18_CrearIdempotente ==
  [][PasoCrear =>
       LET f == formulacion'
           m == ConstruirPLE(datos.distancias, datos.tiempos, datos.capacidades,
                             TodasRutas(datos.distancias), f[1], f[2], f[3])
       IN /\ prob' = m.prob
          /\ x' = m.x
          /\ patios_ids' = m.patios_ids
          /\ matriz_distancias' = matriz_distancias
          /\ matriz_tiempos' = matriz_tiempos
          /\ capacidades' = capacidades
          /\ rutas_ids' = rutas_ids]_vars

\* C18 witness: the strict formulation was built twice (by main and as the
\* first strategy) and the third strategy has been built after the second
C18_Witness ==
  /\ pc = "rel_resolver"
  /\ i = 3
  /\ \E k, n \in DOMAIN eventos :
       /\ k < n
       /\ eventos[k].op = "crear" /\ eventos[n].op = "crear"
       /\ eventos[k].formulacion = eventos[n].formulacion
  /\ \E p \in DOMAIN capacidades : capacidades[p] >= 2

\* the patios that the diagnoses printed name as having more capacity than
\* routes
SobradosReportados ==
  UNION {l.ids : l \in {q \in UNION {Diagnosticos[k].lineas : k \in DOMAIN Diagnosticos} :
                          q.tipo = "PatioCapacidadMayorQueRutas"}}

\* the patios at the first n places of patios_ids whose row has fewer routes
\* than their capacity (tabled, or the default)
Sobrados(n) ==
  {p \in {patios_ids[k] : k \in {m \in DOMAIN patios_ids : m <= n}} :
     Cardinality(RutasValidas(p)) < Get(capacidades, p, CAPACIDAD_PATIO_DEFAULT)}

\* the pre-check answers False only for a capacity shortfall or an isolated
\* route, never because of a patio with more capacity than routes
AvisosNoBloquean ==
  \A k \in DOMAIN eventos :
    (eventos[k].op = "verificar" /\ eventos[k].status = "False")
      => Deficit \/ Aisladas # {}

DiagnosticoDeLosDatos ==
  diagnosticar_infactibilidad(datos.distancias, datos.capacidades,
                              TodasRutas(datos.distancias), Claves(datos.distancias))

\* the step prints a diagnosis
PasoDiagnostico ==
  /\ Len(salida') = Len(salida) + 1
  /\ salida'[Len(salida')].origen = "diagnostico"

\* C20: a step that runs the diagnosis leaves the cost tables, the
\* capacities, the lists of routes and patios and the objective and
\* constraints of the current model as they were, and every diagnosis
\* printed in a run is the diagnosis of the data as loaded: all the
\* diagnoses of a run are the same, whatever the strategies attempted.
C20_DiagnosticoPuro ==
  /\ [](\A k \in DOMAIN Diagnosticos : Diagnosticos[k].lineas = DiagnosticoDeLosDatos)
  /\ [][PasoDiagnostico =>
          /\ matriz_distancias' = matriz_distancias
          /\ matriz_tiempos' = matriz_tiempos
          /\ capacidades' = capacidades
          /\ rutas_ids' = rutas_ids
          /\ patios_ids' = patios_ids
          /\ x' = x
          /\ prob'.objetivo = prob.objetivo
          /\ prob'.restricciones = prob.restricciones]_vars

\* C20 witness: the strict and the first relaxed strategy were both
\* diagnosed, with a patio whose capacity the relaxation changes
C20_Witness ==
  /\ \E k, m \in DOMAIN Diagnosticos :
       Diagnosticos[k].intento = 1 /\ Diagnosticos[m].intento = 2
  /\ \E p \in DOMAIN capacidades : capacidades[p] >= 2


(***************************************************************************)
(* crear_modelo_ple called with the parameters of each strategy in turn,   *)
(* on cost tables with many routes                                         *)
(***************************************************************************)
\* the largest number of patios of those tables
MaxPatiosEstr == 5

\* the largest number of routes that only one patio can serve
MaxBloque == 5

\* the route ids of those tables
RutasEstr ==
  <<"R01", "R02", "R03", "R04", "R05", "R06", "R07", "R08", "R09", "R10", "R11",
     "R12", "R13", "R14", "R15", "R16", "R17", "R18", "R19", "R20", "R21", "R22",
     "R23", "R24", "R25", "R26", "R27", "R28", "R29", "R30", "R31", "R32", "R33",
     "R34", "R35", "R36">>

\* a cost table of n patios: the first one can serve the routes primero,
\* each other one a block of k routes of its own, and the second one the
\* routes primero as well
TablaEstr(n, k, primero) ==
  [p \in {PatiosDiag[q] : q \in 1..n} |->
     LET q == CHOOSE m \in 1..n : PatiosDiag[m] = p
         bloque == {RutasEstr[m] : m \in ((q - 2) * k + 1)..((q - 1) * k)}
         rs == IF q = 1 THEN primero
               ELSE IF q = 2 THEN bloque \cup primero ELSE bloque
     IN [r \in rs |-> q]]

\* the optimizer holds such a table and a capacity table that is empty or
\* lists the first two patios; rutas_ids is the keys of the rows
InitEstrategias ==
  /\ datos \in UNION {{[distancias |-> TablaEstr(n, k, pr), tiempos |-> TablaEstr(n, k, pr),
                        capacidades |-> c, cap_total |-> SumaValores(c)] :
                         k \in 1..MaxBloque,
                         pr \in {{}, {RutasEstr[1]}, {RutasEstr[1], RutasEstr[2]}},
                         c \in {<<>>} \cup {[p \in {PatiosDiag[1], PatiosDiag[2]} |->
                                                IF p = PatiosDiag[1] THEN v
                                                ELSE CAPACIDAD_PATIO_DEFAULT] :
                                               v \in 0..MaxCap}} :
                        n \in 1..MaxPatiosEstr}
  /\ cargado = TRUE
  /\ matriz_distancias = datos.distancias
  /\ matriz_tiempos = datos.tiempos
  /\ capacidades = datos.capacidades
  /\ cap_total = datos.cap_total
  /\ rutas_ids = TodasRutas(datos.distancias)
  /\ patios_ids = <<>>
  /\ prob = SinProblema
  /\ x = {}
  /\ formulacion = SinFormulacion
  /\ resultados = {}
  /\ metricas = SinMetricas
  /\ max_intentos = MAX_INTENTOS_DEFAULT
  /\ i = 1
  /\ retorno = "ninguno"
  /\ archivos = {}
  /\ salida = <<>>
  /\ eventos = <<>>
  /\ pc = "estr"

\* crear_modelo_ple with the parameters of the next strategy
EstrCrearModelo ==
  /\ pc = "estr"
  /\ i <= Len(Estrategias)
  /\ Crear("cliente", i, "distancia", Estrategias[i].balance_carga,
           Estrategias[i].relajar_restricciones, "estr")
  /\ i' = i + 1
  /\ UNCHANGED <<metricas, max_intentos, fijas, resultados, retorno, archivos, salida>>

NextEstrategias == EstrCrearModelo

SpecEstrategias == InitEstrategias /\ [][NextEstrategias]_vars

(***************************************************************************)
(* C21..C30                                                                *)
(***************************************************************************)
\* the call of resolver_con_relajacion has ended
Terminal == pc \in {"fin", "abortado"}

\* the strategies whose solve was performed
ResueltosRelajacion ==
  {eventos[k].intento : k \in {j \in DOMAIN eventos :
     eventos[j].origen = "relajacion" /\ eventos[j].op = "resolver"}}

\* C21: a relaxation search is a state machine Idle -> Attempting(i) ->
\* Solved, Attempting(i+1), Failed or Aborted.  Every search ends in a
\* terminal state (the return of True, the return of False, or an exception)
\* after at most as many attempts as there are strategies, the return of
\* False comes only after the last strategy was tried, and nothing is
\* attempted after a terminal state.
C21_BusquedaTermina ==
  /\ <>Terminal
  /\ [](Len(CreadosRelajacion) <= Len(Estrategias))
  /\ [](pc = "fin" /\ retorno = "False"
          => /\ Len(CreadosRelajacion) = Len(Estrategias)
             /\ Len(Estrategias) \in ResueltosRelajacion)
  /\ [](Terminal => (retorno = "ninguno" <=> pc = "abortado"))
  /\ [][Terminal => UNCHANGED vars]_vars

\* a search that tried the three strategies and returned False
C21_Witness ==
  /\ pc = "fin" /\ retorno = "False"
  /\ Len(CreadosRelajacion) = Len(Estrategias)

\* C29: resolver_con_relajacion(max_intentos) performs no more than
\* max_intentos build-and-solve attempts.
C29_MaxIntentosRespetado == Len(CreadosRelajacion) <= max_intentos

\* the extractions of the search that found no assigned pair
ExtraccionesVacias ==
  {k \in DOMAIN EventosRelajacion :
     EventosRelajacion[k].op = "extraer" /\ EventosRelajacion[k].status = "None"}

\* C30: an attempt is a success only if its solve is Optimal and its
\* extraction has rows.  After an Optimal solve whose extraction has no row
\* the search goes on with the next strategy, and it returns False when that
\* was the last one.
C30_OptimoSinFilasNoEsExito ==
  /\ retorno = "True"
       => /\ Len(EventosRelajacion) >= 2
          /\ LET n == Len(EventosRelajacion)
             IN /\ EventosRelajacion[n].op = "extraer"
                /\ EventosRelajacion[n].status = "Filas"
                /\ resultados # {}
                /\ EventosRelajacion[n - 1].op = "resolver"
                /\ EventosRelajacion[n - 1].status = "Optimal"
                /\ EventosRelajacion[n - 1].intento = EventosRelajacion[n].intento
  /\ \A k \in ExtraccionesVacias :
       LET n == EventosRelajacion[k].intento
       IN /\ EventosRelajacion[k - 1].op = "resolver"
          /\ EventosRelajacion[k - 1].status = "Optimal"
          /\ IF n < Len(Estrategias)
             THEN IF k < Len(EventosRelajacion)
                  THEN /\ EventosRelajacion[k + 1].op = "crear"
                       /\ EventosRelajacion[k + 1].intento = n + 1
                  ELSE pc = "rel_crear" /\ i = n + 1 /\ retorno = "ninguno"
             ELSE k = Len(EventosRelajacion) /\ pc = "fin" /\ retorno = "False"

\* every strategy was solved to Optimal with no row to extract, and the
\* search returned False
C30_Witness ==
  /\ pc = "fin" /\ retorno = "False"
  /\ Cardinality(ExtraccionesVacias) = Len(Estrategias)

RECURSIVE UnaPorRuta(_, _)
\* the assignments that give each route of rs one of the patios that can
\* serve it
UnaPorRuta(md, rs) ==
  IF rs = {} THEN {{}}
  ELSE LET r == CHOOSE j \in rs : TRUE
       IN {S \cup {<<p, r>>} :
             S \in UnaPorRuta(md, rs \ {r}), p \in {q \in DOMAIN md : r \in DOMAIN md[q]}}

\* the assignments of the routes that satisfy every constraint of a model
FactiblesDe(p) ==
  {S \in UnaPorRuta(matriz_distancias, rutas_ids) :
     \A r \in p.restricciones : Cumple(S, r)}

\* the model crear_modelo_ple builds from the data for strategy n
ModeloDeEstrategia(n) ==
  ConstruirPLE(matriz_distancias, matriz_tiempos, capacidades, rutas_ids, "distancia",
               Estrategias[n].balance_carga, Estrategias[n].relajar_restricciones).prob

\* C22: the strategies are successively looser: every assignment that
\* satisfies the constraints of the model of a strategy satisfies those of the
\* model of the next one, so the next one is feasible when the earlier one is.
C22_EstrategiasAnidadas ==
  (pc = "estr" /\ i > 2)
    => /\ FactiblesDe(ModeloDeEstrategia(i - 2)) \subseteq FactiblesDe(prob)
       /\ FactiblesDe(ModeloDeEstrategia(i - 2)) # {} => FactiblesDe(prob) # {}

\* the attempts of the search that the solver ended as Infeasible
IntentosInfactibles ==
  {k \in DOMAIN EventosRelajacion :
     EventosRelajacion[k].op = "resolver" /\ EventosRelajacion[k].status = "Infeasible"}

\* C23: for each attempt of the search that ends Infeasible the diagnoser
\* runs for that attempt before the next strategy is built, its diagnosis is
\* retained, and the search goes on with the next strategy, or returns False
\* when it was the last.
C23_InfactibleDiagnosticaYSigue ==
  \A k \in IntentosInfactibles :
    LET n == EventosRelajacion[k].intento
    IN /\ \E m \in DOMAIN Diagnosticos : Diagnosticos[m].intento = n
       /\ \E m \in DOMAIN DiagnosticosRetenidos : DiagnosticosRetenidos[m].intento = n
       /\ IF n < Len(Estrategias)
          THEN IF k < Len(EventosRelajacion)
               THEN /\ EventosRelajacion[k + 1].op = "crear"
                    /\ EventosRelajacion[k + 1].intento = n + 1
               ELSE pc = "rel_crear" /\ i = n + 1
          ELSE k = Len(EventosRelajacion) /\ pc = "fin" /\ retorno = "False"

\* the sum, over the patios of the cost table, of the capacity the unrelaxed
\* model enforces for each: that of the capacity table, or the default
CapacidadDelModelo ==
  SumaValores([p \in DOMAIN matriz_distancias |->
                 Get(capacidades, p, CAPACIDAD_PATIO_DEFAULT)])

\* C24: the pre-check, the model builder and the diagnoser agree on the
\* capacities: the total capacity that the pre-check and the diagnoser compare
\* with the number of routes is the sum, over the patios of the cost table, of
\* the capacity the unrelaxed model enforces (the default for a patio absent
\* from the capacity table, nothing for a patio absent from the cost table).
C24_CapacidadesConcuerdan ==
  /\ \A k \in DOMAIN ReportesVerificar :
       /\ (\E l \in ReportesVerificar[k].lineas : l.tipo = "CapacidadInsuficiente")
            <=> Cardinality(rutas_ids) > CapacidadDelModelo
       /\ \A l \in ReportesVerificar[k].lineas :
            l.tipo = "CapacidadInsuficiente" => l.b = CapacidadDelModelo
  /\ \A k \in DOMAIN Diagnosticos :
       \A l \in Diagnosticos[k].lineas :
         l.tipo = "CapacidadVsRutas" => l.b = CapacidadDelModelo

\* the buses a point of the model sends to patio q
BusesEn(v, q) == {b \in rutas_ids : <<b, q>> \in v.x}

\* C25: in the model of OptimizadorBusesPatios every feasible solution
\* assigns each bus to exactly one patio, a patio receives a bus only if its
\* y is 1 and then no more buses than its capacity, and t_max is at least the
\* travel time (distance over speed, here both sides times the speed) of
\* every assigned pair.
C25_FactiblesBuses ==
  (pc \in {"buses_resolver", "buses_fin"} /\ prob.creado) =>
    \A v \in FactiblesBuses(prob) :
      /\ \A b \in rutas_ids :
           Cardinality({q \in Rango(patios_ids) : <<b, q>> \in v.x}) = 1
      /\ \A q \in Rango(patios_ids) :
           BusesEn(v, q) # {}
             => /\ q \in v.y
                /\ Cardinality(BusesEn(v, q))
                     <= Get(capacidades, SinPrefijo(q), CAPACIDAD_PATIO_DEFAULT)
      /\ \A r \in v.x : v.t_max >= matriz_distancias[r[1]][r[2]]

\* an Optimal solution that sends two buses to the same patio
C25_Witness ==
  /\ pc = "buses_fin"
  /\ prob.status = "Optimal"
  /\ \E q \in Rango(patios_ids) : Cardinality(BusesEn(prob.valores, q)) = 2

\* C26: the loaded inputs do not change during a run: after any sequence of
\* pre-check, builds (relaxed or not), solves, diagnoses and extractions the
\* cost tables, the capacity table and the list of routes are those of right
\* after the load; a relaxed build leaves the capacity table as it was.
C26_EntradasInmutables ==
  cargado =>
    /\ matriz_distancias = datos.distancias
    /\ matriz_tiempos = datos.tiempos
    /\ capacidades = datos.capacidades
    /\ cap_total = datos.cap_total
    /\ rutas_ids = UNION {DOMAIN datos.distancias[q] : q \in DOMAIN datos.distancias}

\* a run that ended after relaxed builds and an extraction, with a capacity
\* that relaxing changes and a patio that the capacity table lacks
C26_Witness ==
  /\ pc = "fin" /\ retorno = "True" /\ i >= 2
  /\ \E q \in DOMAIN capacidades : capacidades[q] >= 2
  /\ \E q \in DOMAIN matriz_distancias : q \notin DOMAIN capacidades

\* the bounds ajustar_balance_carga returns for the data and the factors of
\* the current formulation
LimitesBalance ==
  IF formulacion[3]
  THEN ajustar_balance_carga(Cardinality(rutas_ids), Len(patios_ids), 3, 10, 3, 1)
  ELSE ajustar_balance_carga(Cardinality(rutas_ids), Len(patios_ids), 3, 4, 5, 4)

\* C27: for every number of routes, every positive number of patios and both
\* pairs of factors (0.75/1.25 and 0.3/3.0) ajustar_balance_carga returns
\* min_rutas <= max_rutas, so the two balance constraints of a patio never
\* contradict each other.
C27_LimitesConsistentes ==
  ModeloConBalance =>
    /\ LimitesBalance[1] <= LimitesBalance[2]
    /\ \A p \in Rango(patios_ids) :
         \A a \in RestriccionesDe("Min_Rutas_Patio", p),
            b \in RestriccionesDe("Max_Rutas_Patio", p) : a.rhs <= b.rhs

\* the exactly-one constraints of the current model
RestriccionesDeRuta == {c \in prob.restricciones : c.nombre = "Ruta_Asignada"}

\* C28: in the pipeline rutas_ids is exactly the union of the keys of the
\* rows of the cost table, so every route has a patio that can serve it, the
\* pre-check never reports routes without patio, and crear_modelo_ple emits
\* exactly one exactly-one constraint per route of rutas_ids.
C28_RutasSonLasClaves ==
  cargado =>
    /\ rutas_ids = UNION {DOMAIN matriz_distancias[p] : p \in DOMAIN matriz_distancias}
    /\ \A r \in rutas_ids : \E p \in DOMAIN matriz_distancias : r \in DOMAIN matriz_distancias[p]
    /\ \A k \in DOMAIN ReportesVerificar :
         \A l \in ReportesVerificar[k].lineas : l.tipo # "RutasSinPatio"
    /\ ModeloCreado =>
         /\ Cardinality(RestriccionesDeRuta) = Cardinality(rutas_ids)
         /\ {c.id : c \in RestriccionesDeRuta} = rutas_ids
         /\ \A c \in RestriccionesDeRuta : c.sentido = "=" /\ c.rhs = 1

\* a model built in the pipeline for three routes, with a patio that cannot
\* serve all of them
C28_Witness ==
  /\ ModeloCreado
  /\ eventos[Len(eventos)].origen # "cliente"
  /\ Cardinality(rutas_ids) = Cardinality(Rutas)
  /\ \E p \in DOMAIN matriz_distancias : DOMAIN matriz_distancias[p] # rutas_ids

====
